---- MODULE Spec2Model ----
(***************************************************************************)
(* Verification model of lapis/lapis.py (lidar inventory resolution and    *)
(* extraction): SearchLidarInventory, ProcessLidarCollections, fetch_lidar. *)
(* Each component has its own specification over its own variables; the    *)
(* variables of the other components stay idle.                            *)
(***************************************************************************)
EXTENDS Integers, Sequences, FiniteSets, TLC

VARIABLES
    \* SearchLidarInventory.make_post_request
    p_locations,   \* records of gdf[['name','esri_geometry']]
    p_pc,          \* "idle" | "loop" | "concat" | "returned" | "raised"
    p_ui,          \* index of the current url
    p_li,          \* index of the current location
    p_gdfs,        \* the list gdfs: one entry per non-empty response
    p_posts,       \* number of requests.post calls issued so far
    p_status,      \* status code of the last response (0 before any)
    p_err,         \* the raised exception: type and message
    p_result,      \* the returned gdf_collection (rows), or NoTable
    \* SearchLidarInventory.generate_geometries
    g_locations,   \* self.locations: the Regions
    g_pc,          \* "loop" | "returned" | "raised"
    g_i,           \* index of the Region the loop is at
    g_gdfs,        \* the list gdfs: one frame per Region that took a branch
    g_err,         \* the raised exception
    g_wgs,         \* returned gdf_wgs
    g_mercator,    \* returned gdf_mercator
    \* ProcessLidarCollections._parse_ept_from_usiaei / _parse_noaa_lidar_id
    k_links,       \* the Links value of one Collection row
    k_pc,          \* "start" | "usiaei" | "done" | "raised"
    k_ept_usiaei,  \* result of _parse_ept_from_usiaei
    k_noaa_id,     \* result of _parse_noaa_lidar_id
    k_err,         \* the raised exception
    \* ProcessLidarCollections._get_ept_epsg
    e_url,         \* the argument: a cell value of the 'ept' column
    e_env,         \* what the introspection of that url produces
    e_pc,          \* "start" | "returned" | "raised"
    e_result,      \* the returned EPSG code
    e_err,         \* the raised exception
    \* ProcessLidarCollections.execute
    x_collections, \* self.collections: the Collection table, one record per row
    x_locations,   \* self.locations: the geographic location table
    x_ref,         \* self.noaa_dav_gdf[['ID #', 'EPT']]: the reference table
    x_pc,          \* "start" | "usiaei" | "noaa" | "merged" | "ept" | "crs" | "done" | "raised"
    x_err,         \* the raised exception
    \* fetch_lidar
    f_gdf,         \* the argument gdf: rows of ept and ept_gdf
    f_method,      \* the argument geometry_method
    f_write,       \* the argument write
    f_pc,          \* "start" | "built" | "returned" | "raised"
    f_pipeline,    \* the local pipeline: the stages built so far
    f_err          \* the raised exception

postVars == <<p_locations, p_pc, p_ui, p_li, p_gdfs, p_posts, p_status, p_err, p_result>>

geomVars == <<g_locations, g_pc, g_i, g_gdfs, g_err, g_wgs, g_mercator>>

linkVars == <<k_links, k_pc, k_ept_usiaei, k_noaa_id, k_err>>

epsgVars == <<e_url, e_env, e_pc, e_result, e_err>>

execVars == <<x_collections, x_locations, x_ref, x_pc, x_err>>

fetchVars == <<f_gdf, f_method, f_write, f_pc, f_pipeline, f_err>>

vars == <<postVars, geomVars, linkVars, epsgVars, execVars, fetchVars>>

(***************************************************************************)
(* Bounds of the model.                                                    *)
(***************************************************************************)
MaxLocs == 2
MaxFeatures == 1
MaxRegions == 2
MaxLinks == 2
MaxRows == 2

Names == {"n1", "n2"}

\* Sequences over S of length 0..n
RECURSIVE SeqsUpTo(_, _)
SeqsUpTo(S, n) ==
    IF n = 0 THEN {<<>>}
    ELSE LET shorter == SeqsUpTo(S, n - 1)
         IN  shorter \cup {Append(s, x) : s \in {t \in shorter : Len(t) = n - 1}, x \in S}

NoErr == [type |-> "none", msg |-> "", code |-> 0]
NoTable == <<[name |-> "<no table>", url |-> "", fid |-> 0]>>

(***************************************************************************)
(* SearchLidarInventory.make_post_request                                  *)
(***************************************************************************)
urls == <<"USIEIv2/MapServer/2/query", "USIEIv2/MapServer/0/query">>

\* Status codes the service may answer with.
Statuses == {200, 204, 400, 401, 403, 404, 429, 500, 502, 503}

\* the rows of one response's GeoDataFrame.from_features(json['features']),
\* tagged with gdf['name'] = location['name']
ResponseRows(name, url, n) == [i \in 1..n |-> [name |-> name, url |-> url, fid |-> i]]

RECURSIVE Concat(_)
Concat(frames) == IF frames = <<>> THEN <<>> ELSE Head(frames) \o Concat(Tail(frames))

\* the loop header: advance to the next (url, location) pair, url-major
Advance ==
    IF p_li < Len(p_locations)
    THEN /\ p_li' = p_li + 1
         /\ UNCHANGED <<p_ui, p_pc>>
    ELSE IF p_ui < Len(urls)
    THEN /\ p_ui' = p_ui + 1
         /\ p_li' = 1
         /\ UNCHANGED p_pc
    ELSE /\ p_pc' = "concat"
         /\ UNCHANGED <<p_ui, p_li>>

RaiseMessage400(code) == [type |-> "Exception", msg |-> "Bad request", code |-> code]
RaiseMessage401(code) == [type |-> "Exception", msg |-> "Unauthorized", code |-> code]
RaiseMessage500(code) == [type |-> "Exception", msg |-> "Internal error", code |-> code]

\* The status check of one response: TRUE when the call raises.
IsFatalMutant(code) == code \in {401, 500}
IsFatal(code) == code \in {400, 401, 500}

FatalError(code) ==
    IF code = 400 THEN RaiseMessage400(code)
    ELSE IF code = 401 THEN RaiseMessage401(code)
    ELSE RaiseMessage500(code)

\* entering the loop; an empty locations list skips both loops
PostStart ==
    /\ p_pc = "idle"
    /\ IF Len(p_locations) = 0
       THEN p_pc' = "concat" /\ UNCHANGED <<p_ui, p_li>>
       ELSE p_pc' = "loop" /\ p_ui' = 1 /\ p_li' = 1
    /\ UNCHANGED <<p_locations, p_gdfs, p_posts, p_status, p_err, p_result>>

\* one iteration whose response has status 200 and a GeoJSON body of n features
PostOk(n) ==
    /\ p_pc = "loop"
    /\ p_posts' = p_posts + 1
    /\ p_status' = 200
    /\ p_gdfs' = IF n > 0
                 THEN Append(p_gdfs, ResponseRows(p_locations[p_li].name, urls[p_ui], n))
                 ELSE p_gdfs
    /\ Advance
    /\ UNCHANGED <<p_locations, p_err, p_result>>

\* one iteration whose response has status 400, 401 or 500: raise
PostFatal(code) ==
    /\ p_pc = "loop"
    /\ IsFatal(code)
    /\ p_posts' = p_posts + 1
    /\ p_status' = code
    /\ p_pc' = "raised"
    /\ p_err' = FatalError(code)
    /\ UNCHANGED <<p_locations, p_ui, p_li, p_gdfs, p_result>>

\* one iteration whose response has any other status: no branch is taken
PostOther(code) ==
    /\ p_pc = "loop"
    /\ code # 200
    /\ ~IsFatal(code)
    /\ p_posts' = p_posts + 1
    /\ p_status' = code
    /\ Advance
    /\ UNCHANGED <<p_locations, p_gdfs, p_err, p_result>>

\* pd.concat of an empty list raises ValueError
EmptyConcatErrorMutant == [type |-> "Exception", msg |-> "Request failed", code |-> 0]
EmptyConcatError == [type |-> "ValueError", msg |-> "No objects to concatenate", code |-> 0]

\* gdf_collection = pd.concat(gdfs, ignore_index=True); return
PostConcat ==
    /\ p_pc = "concat"
    /\ IF p_gdfs = <<>>
       THEN /\ p_pc' = "raised"
            /\ p_err' = EmptyConcatError
            /\ UNCHANGED p_result
       ELSE /\ p_pc' = "returned"
            /\ p_result' = Concat(p_gdfs)
            /\ UNCHANGED p_err
    /\ UNCHANGED <<p_locations, p_ui, p_li, p_gdfs, p_posts, p_status>>

PostInit ==
    /\ p_locations \in SeqsUpTo([name : Names], MaxLocs)
    /\ p_pc = "idle"
    /\ p_ui = 0
    /\ p_li = 0
    /\ p_gdfs = <<>>
    /\ p_posts = 0
    /\ p_status = 0
    /\ p_err = NoErr
    /\ p_result = NoTable

PostIdle ==
    /\ p_locations = <<>>
    /\ p_pc = "off"
    /\ p_ui = 0
    /\ p_li = 0
    /\ p_gdfs = <<>>
    /\ p_posts = 0
    /\ p_status = 0
    /\ p_err = NoErr
    /\ p_result = NoTable

(***************************************************************************)
(* SearchLidarInventory.generate_geometries                                *)
(***************************************************************************)
wgs == 4326
albers == 5070
mercator == 3857
DefaultBuffer == 50

AllKeys == {"name", "data_type", "value", "buffer"}

\* A Region is a dict; keys holds the keys that are present.
Region(name, dt, value, hasBuffer, buffer) ==
    [keys |-> IF hasBuffer THEN AllKeys ELSE AllKeys \ {"buffer"},
     name |-> name, data_type |-> dt, value |-> value, buffer |-> buffer]

SampleBuffer == 10

Regions ==
    {Region(n, "coords", "pt", b, IF b THEN SampleBuffer ELSE 0) : n \in Names, b \in BOOLEAN}
    \cup {Region(n, "file", f, FALSE, 0) : n \in Names,
                                            f \in {"one.shp", "multi.shp", "missing.shp"}}
    \cup {Region(n, "bbox", "box", FALSE, 0) : n \in Names}
    \cup {Region(n, "wkt", "text", FALSE, 0) : n \in Names}

Geom(shape, parts, radius, src, crs) ==
    [shape |-> shape, parts |-> parts, part |-> 0, radius |-> radius, src |-> src, crs |-> crs]

\* GeoDataFrame/GeoSeries.to_crs on a geometry
ToCrs(g, crs) == [g EXCEPT !.crs = crs]
FrameToCrs(rows, crs) == [k \in 1..Len(rows) |-> [rows[k] EXCEPT !.geometry = ToCrs(@, crs)]]

\* geometry.buffer(r) of a point: a polygon of that radius
Buffer(g, r) == [g EXCEPT !.shape = "polygon", !.radius = r]

\* {key: location[key] for key in ['name', 'buffer']}: KeyError on a missing key
AttributesRaises(location, wanted) == \E k \in wanted : k \notin location.keys

\* try: buffer = attributes['buffer'] except KeyError: buffer = 50
BufferOf(attrKeys, location) ==
    IF "buffer" \in attrKeys THEN location.buffer ELSE DefaultBuffer

KeyErrorOf(k) == [type |-> "KeyError", msg |-> k, code |-> 0]

\* gpd.read_file(location['value']): the features of the vector source
\* (the sample sources hold one feature each, single-part or multi-part)
FileReadable(path) == path # "missing.shp"
FileFeatures(path) ==
    IF path = "multi.shp" THEN <<Geom("multipolygon", MaxFeatures + 1, 0, path, wgs)>>
    ELSE <<Geom("polygon", 1, 0, path, wgs)>>

\* the 'coords' branch
GeomCoords ==
    /\ g_pc = "loop"
    /\ g_i <= Len(g_locations)
    /\ LET location == g_locations[g_i]
           attrKeys == {"name", "buffer"}
       IN  /\ location.data_type = "coords"
           /\ IF AttributesRaises(location, attrKeys)
              THEN /\ g_pc' = "raised"
                   /\ g_err' = KeyErrorOf(CHOOSE k \in attrKeys : k \notin location.keys)
                   /\ UNCHANGED <<g_i, g_gdfs>>
              ELSE LET point == Geom("point", 1, 0, location.value, wgs)
                       buffer == BufferOf(attrKeys, location)
                       buffered == Buffer(ToCrs(point, albers), buffer)
                   IN  /\ g_gdfs' = Append(g_gdfs, <<[name |-> location.name,
                                                      geometry |-> ToCrs(buffered, wgs)]>>)
                       /\ g_i' = g_i + 1
                       /\ UNCHANGED <<g_pc, g_err>>
    /\ UNCHANGED <<g_locations, g_wgs, g_mercator>>

\* the 'file' branch
GeomFile ==
    /\ g_pc = "loop"
    /\ g_i <= Len(g_locations)
    /\ LET location == g_locations[g_i]
       IN  /\ location.data_type = "file"
           /\ IF ~FileReadable(location.value)
              THEN /\ g_pc' = "raised"
                   /\ g_err' = [type |-> "DriverError", msg |-> location.value, code |-> 0]
                   /\ UNCHANGED <<g_i, g_gdfs>>
              ELSE LET feats == FileFeatures(location.value)
                   IN  /\ g_gdfs' = Append(g_gdfs,
                               [k \in 1..Len(feats) |-> [name |-> location.name,
                                                         geometry |-> feats[k]]])
                       /\ g_i' = g_i + 1
                       /\ UNCHANGED <<g_pc, g_err>>
    /\ UNCHANGED <<g_locations, g_wgs, g_mercator>>

\* the 'bbox' branch
GeomBbox ==
    /\ g_pc = "loop"
    /\ g_i <= Len(g_locations)
    /\ LET location == g_locations[g_i]
       IN  /\ location.data_type = "bbox"
           /\ g_gdfs' = Append(g_gdfs, <<[name |-> location.name,
                                          geometry |-> Geom("polygon", 1, 0, location.value, wgs)]>>)
           /\ g_i' = g_i + 1
    /\ UNCHANGED <<g_locations, g_pc, g_err, g_wgs, g_mercator>>

\* no branch matches the data_type: the if/elif chain has no else
GeomNoBranch ==
    /\ g_pc = "loop"
    /\ g_i <= Len(g_locations)
    /\ ~(g_locations[g_i].data_type \in {"coords", "file", "bbox"})
    /\ g_i' = g_i + 1
    /\ UNCHANGED <<g_locations, g_pc, g_gdfs, g_err, g_wgs, g_mercator>>

\* gdf.explode(index_parts=False): one row per part
RECURSIVE Explode(_)
Explode(rows) ==
    IF rows = <<>> THEN <<>>
    ELSE LET r == Head(rows)
             single == IF r.geometry.shape = "multipolygon" THEN "polygon" ELSE r.geometry.shape
         IN  [k \in 1..r.geometry.parts |->
                 [r EXCEPT !.geometry = [@ EXCEPT !.shape = single, !.parts = 1, !.part = k]]]
             \o Explode(Tail(rows))

\* convert_to_esri_geometry: rings for (Multi)Polygon, None otherwise
convert_to_esri_geometry(geom) ==
    IF geom.shape \in {"multipolygon", "polygon"} THEN "rings" ELSE "None"

\* after the loop: concat, reproject, explode, encode
GeomFinish ==
    /\ g_pc = "loop"
    /\ g_i > Len(g_locations)
    /\ IF g_gdfs = <<>>
       THEN /\ g_pc' = "raised"
            /\ g_err' = EmptyConcatError
            /\ UNCHANGED <<g_wgs, g_mercator>>
       ELSE LET all == Concat(g_gdfs)
                merc == Explode(FrameToCrs(all, mercator))
            IN  /\ g_pc' = "returned"
                /\ g_wgs' = FrameToCrs(merc, wgs)
                /\ g_mercator' = [k \in 1..Len(merc) |->
                       [name |-> merc[k].name, geometry |-> merc[k].geometry,
                        esri_geometry |-> convert_to_esri_geometry(merc[k].geometry)]]
                /\ UNCHANGED g_err
    /\ UNCHANGED <<g_locations, g_i, g_gdfs>>

GeomInit ==
    /\ g_locations \in SeqsUpTo(Regions, MaxRegions)
    /\ g_pc = "loop"
    /\ g_i = 1
    /\ g_gdfs = <<>>
    /\ g_err = NoErr
    /\ g_wgs = <<>>
    /\ g_mercator = <<>>

GeomIdle ==
    /\ g_locations = <<>>
    /\ g_pc = "idle"
    /\ g_i = 0
    /\ g_gdfs = <<>>
    /\ g_err = NoErr
    /\ g_wgs = <<>>
    /\ g_mercator = <<>>

(***************************************************************************)
(* Cell values: None, NaN, or a string (a sequence of characters).         *)
(***************************************************************************)
None == [k |-> "None", s |-> <<>>]
NaN == [k |-> "NaN", s |-> <<>>]
Str(s) == [k |-> "str", s |-> s]

\* pd.isnull
IsNull(v) == v.k \in {"None", "NaN"}

Returned(v) == [raised |-> FALSE, exc |-> "", val |-> v]
Raised(exc) == [raised |-> TRUE, exc |-> exc, val |-> None]

(***************************************************************************)
(* ProcessLidarCollections._parse_ept_from_usiaei, _parse_noaa_lidar_id    *)
(***************************************************************************)
\* a character is a one-character string; a character outside ASCII is written
\* by the name of its code point
ArabicIndicOne == "U+0661"
ArabicIndicTwo == "U+0662"

\* \d in a str pattern matches every Unicode decimal digit (category Nd), not
\* only 0-9; the digits outside ASCII are sampled by two ARABIC-INDIC digits
Digits ==
    {"0", "1", "2", "3", "4", "5", "6", "7", "8", "9"} \cup {ArabicIndicOne, ArabicIndicTwo}

\* the longest run of digits of s starting at position i
RECURSIVE DigitRun(_, _)
DigitRun(s, i) ==
    IF i <= Len(s) /\ s[i] \in Digits THEN <<s[i]>> \o DigitRun(s, i + 1) ELSE <<>>

\* re.search(r'ID=(\d+)', s): group(1) of the leftmost match, <<>> for no match
RECURSIVE SearchIdFrom(_, _)
SearchIdFrom(s, i) ==
    IF i + 3 > Len(s) THEN <<>>
    ELSE IF s[i] = "I" /\ s[i + 1] = "D" /\ s[i + 2] = "=" /\ s[i + 3] \in Digits
         THEN DigitRun(s, i + 3)
         ELSE SearchIdFrom(s, i + 1)

SearchId(s) == SearchIdFrom(s, 1)

\* one entry of the 'links' list: a dict; keys holds the keys that are present
LinkKeys == {"link", "label", "linktype"}
Entry(keys, label, linktype, link) ==
    [keys |-> keys, label |-> label, linktype |-> linktype, link |-> link]

UrlA == <<"a">>
UrlB == <<"b">>
NoaaLink12 == <<"?", "I", "D", "=", "1", "2">>
NoaaLinkLate == <<"I", "D", "=", "x", "I", "D", "=", "7", "&">>
NoaaLinkNoId == <<"?", "i", "d">>
NoaaLinkArabic == <<"I", "D", "=", ArabicIndicOne, ArabicIndicTwo>>
NoaaLinkMixed == <<"I", "D", "=", "1", ArabicIndicTwo>>

Entries ==
    { Entry(LinkKeys, "USGS", "EPT Link", UrlA),
      Entry(LinkKeys, "USGS", "EPT Link", UrlB),
      Entry(LinkKeys, "NOAA Digital Coast", "Data Access", NoaaLink12),
      Entry(LinkKeys, "NOAA Digital Coast", "Data Access", NoaaLinkLate),
      Entry(LinkKeys, "NOAA Digital Coast", "Data Access", NoaaLinkNoId),
      Entry(LinkKeys, "NOAA Digital Coast", "Data Access", NoaaLinkArabic),
      Entry(LinkKeys, "NOAA Digital Coast", "Data Access", NoaaLinkMixed),
      Entry(LinkKeys, "NOAA Digital Coast", "Metadata", NoaaLink12),
      Entry(LinkKeys \ {"link"}, "USGS", "EPT Link", <<>>),
      Entry(LinkKeys \ {"linktype"}, "USGS", "", UrlA),
      Entry(LinkKeys \ {"label"}, "", "EPT Link", UrlA),
      Entry(LinkKeys \ {"linktype"}, "NOAA Digital Coast", "", NoaaLink12),
      Entry(LinkKeys \ {"link"}, "NOAA Digital Coast", "Data Access", <<>>) }

\* A Links cell: None, a non-string (NaN), or text; json is what json.loads
\* makes of the text: "invalid" (JSONDecodeError), a scalar, a list, or a dict
\* with or without the key 'links'.
LinksCell(kind, json, hasLinks, links) ==
    [kind |-> kind, json |-> json, hasLinks |-> hasLinks, links |-> links]

LinksNone == LinksCell("None", "", FALSE, <<>>)
LinksNaN == LinksCell("NaN", "", FALSE, <<>>)
LinksDict(links) == LinksCell("text", "dict", TRUE, links)

LinksValues ==
    {LinksNone, LinksNaN,
     LinksCell("text", "invalid", FALSE, <<>>),
     LinksCell("text", "scalar", FALSE, <<>>),
     LinksCell("text", "list", FALSE, <<>>),
     LinksCell("text", "dict", FALSE, <<>>)}
    \cup {LinksDict(l) : l \in SeqsUpTo(Entries, MaxLinks)}

\* links = json.loads(x); links['links']: the exception raised, "" for none
LoadLinksExc(x) ==
    IF x.kind = "NaN" THEN "TypeError"
    ELSE IF x.json = "invalid" THEN "JSONDecodeError"
    ELSE IF x.json \in {"scalar", "list"} THEN "TypeError"
    ELSE IF ~x.hasLinks THEN "KeyError"
    ELSE ""

\* the exceptions the two parsers catch
CaughtByParser == {"JSONDecodeError", "TypeError"}

\* [l['link'] for l in links['links'] if l.get('linktype') == 'EPT Link']
RECURSIVE EptLinkValues(_)
EptLinkValues(links) ==
    IF links = <<>> THEN [exc |-> "", vals |-> <<>>]
    ELSE LET l == Head(links)
             matches == "linktype" \in l.keys /\ l.linktype = "EPT Link"
         IN  IF matches /\ "link" \notin l.keys THEN [exc |-> "KeyError", vals |-> <<>>]
             ELSE LET rest == EptLinkValues(Tail(links))
                  IN  IF rest.exc # "" THEN rest
                      ELSE [exc |-> "", vals |-> (IF matches THEN <<l.link>> ELSE <<>>) \o rest.vals]

\* [l['link'] for l in links['links']
\*      if l['label'] == "NOAA Digital Coast" and l['linktype'] == "Data Access"]
RECURSIVE NoaaLinkValues(_)
NoaaLinkValues(links) ==
    IF links = <<>> THEN [exc |-> "", vals |-> <<>>]
    ELSE LET l == Head(links)
         IN  IF "label" \notin l.keys THEN [exc |-> "KeyError", vals |-> <<>>]
             ELSE IF l.label = "NOAA Digital Coast" /\ "linktype" \notin l.keys
                  THEN [exc |-> "KeyError", vals |-> <<>>]
             ELSE LET matches == l.label = "NOAA Digital Coast" /\ l.linktype = "Data Access"
                  IN  IF matches /\ "link" \notin l.keys THEN [exc |-> "KeyError", vals |-> <<>>]
                      ELSE LET rest == NoaaLinkValues(Tail(links))
                           IN  IF rest.exc # "" THEN rest
                               ELSE [exc |-> "",
                                     vals |-> (IF matches THEN <<l.link>> ELSE <<>>) \o rest.vals]

\* an exception inside the try block: caught (np.nan) or propagated
ParserExcept(exc) == IF exc \in CaughtByParser THEN Returned(NaN) ELSE Raised(exc)

_parse_ept_from_usiaei(x) ==
    IF x.kind = "None" THEN Returned(None)
    ELSE IF LoadLinksExc(x) # "" THEN ParserExcept(LoadLinksExc(x))
    ELSE LET r == EptLinkValues(x.links)
         IN  IF r.exc # "" THEN ParserExcept(r.exc)
             ELSE IF r.vals # <<>> THEN Returned(Str(r.vals[1]))
             ELSE Returned(NaN)

\* with no matching link, or a link without 'ID=<digits>', the function falls
\* off its end and returns None
_parse_noaa_lidar_id(x) ==
    IF x.kind = "None" THEN Returned(None)
    ELSE IF LoadLinksExc(x) # "" THEN ParserExcept(LoadLinksExc(x))
    ELSE LET r == NoaaLinkValues(x.links)
         IN  IF r.exc # "" THEN ParserExcept(r.exc)
             ELSE IF r.vals # <<>> /\ SearchId(r.vals[1]) # <<>>
                  THEN Returned(Str(SearchId(r.vals[1])))
             ELSE Returned(None)

\* self.collections['Links'].apply(self._parse_ept_from_usiaei) on one row
LinksParseEpt ==
    /\ k_pc = "start"
    /\ LET r == _parse_ept_from_usiaei(k_links)
       IN  IF r.raised
           THEN k_pc' = "raised" /\ k_err' = r.exc /\ UNCHANGED k_ept_usiaei
           ELSE k_pc' = "usiaei" /\ k_ept_usiaei' = r.val /\ UNCHANGED k_err
    /\ UNCHANGED <<k_links, k_noaa_id>>

\* self.collections['Links'].apply(self._parse_noaa_lidar_id) on one row
LinksParseNoaa ==
    /\ k_pc = "usiaei"
    /\ LET r == _parse_noaa_lidar_id(k_links)
       IN  IF r.raised
           THEN k_pc' = "raised" /\ k_err' = r.exc /\ UNCHANGED k_noaa_id
           ELSE k_pc' = "done" /\ k_noaa_id' = r.val /\ UNCHANGED k_err
    /\ UNCHANGED <<k_links, k_ept_usiaei>>

Unset == [k |-> "unset", s |-> <<>>]

LinksInit ==
    /\ k_links \in LinksValues
    /\ k_pc = "start"
    /\ k_ept_usiaei = Unset
    /\ k_noaa_id = Unset
    /\ k_err = ""

LinksIdle ==
    /\ k_links = LinksNone
    /\ k_pc = "off"
    /\ k_ept_usiaei = Unset
    /\ k_noaa_id = Unset
    /\ k_err = ""

(***************************************************************************)
(* ProcessLidarCollections._get_ept_epsg                                   *)
(***************************************************************************)
\* What `pdal info --summary url` does and prints:
\*   tool    "missing" (no executable), "nonzero" (exit status # 0), "ok"
\*   output  "invalid" (not JSON), "json"
\*   top     the JSON value: "dict" or "other" (list, number, string, null)
\*   summary, srs   the value under that key: "absent", "dict", "other"
\*   wkt     "absent", "empty" (''), "null", "garbage" (pyproj cannot parse it),
\*           "noepsg" (parsed, to_epsg() is None), "epsg" (parsed and matched)
\*   epsg    the code to_epsg() gives for a matched WKT
Introspection(tool, output, top, summary, srs, wkt, epsg) ==
    [tool |-> tool, output |-> output, top |-> top, summary |-> summary,
     srs |-> srs, wkt |-> wkt, epsg |-> epsg]

EpsgCodes == {26918, 3857}

Introspections ==
    {Introspection(tool, output, top, summary, srs, wkt, epsg) :
        tool \in {"missing", "nonzero", "ok"}, output \in {"invalid", "json"},
        top \in {"dict", "other"}, summary \in {"absent", "dict", "other"},
        srs \in {"absent", "dict", "other"},
        wkt \in {"absent", "empty", "null", "garbage", "noepsg", "epsg"},
        epsg \in EpsgCodes}

\* subprocess.check_output(cmd); json.loads(output);
\* metadata['summary']['srs']['wkt']: the exception raised, "" for none
ReadWktExc(env) ==
    IF env.tool = "missing" THEN "FileNotFoundError"
    ELSE IF env.tool = "nonzero" THEN "CalledProcessError"
    ELSE IF env.output = "invalid" THEN "JSONDecodeError"
    ELSE IF env.top # "dict" THEN "TypeError"
    ELSE IF env.summary = "absent" THEN "KeyError"
    ELSE IF env.summary # "dict" THEN "TypeError"
    ELSE IF env.srs = "absent" THEN "KeyError"
    ELSE IF env.srs # "dict" THEN "TypeError"
    ELSE IF env.wkt = "absent" THEN "KeyError"
    ELSE ""

\* if wkt_string: int(pyproj.CRS.from_string(wkt_string).to_epsg())
WktTruthy(env) == env.wkt \notin {"empty", "null"}
ToEpsgExc(env) ==
    IF env.wkt = "garbage" THEN "CRSError"
    ELSE IF env.wkt = "noepsg" THEN "TypeError"
    ELSE ""

\* the exceptions _get_ept_epsg catches
CaughtByEpsg == {"CalledProcessError", "JSONDecodeError", "KeyError"}

DefaultEpsg == 4326

_get_ept_epsg(url, env) ==
    IF url.k # "str" THEN [raised |-> FALSE, exc |-> "", val |-> DefaultEpsg]
    ELSE IF ReadWktExc(env) # ""
         THEN IF ReadWktExc(env) \in CaughtByEpsg
              THEN [raised |-> FALSE, exc |-> "", val |-> DefaultEpsg]
              ELSE [raised |-> TRUE, exc |-> ReadWktExc(env), val |-> 0]
    ELSE IF ~WktTruthy(env) THEN [raised |-> FALSE, exc |-> "", val |-> DefaultEpsg]
    ELSE IF ToEpsgExc(env) # ""
         THEN IF ToEpsgExc(env) \in CaughtByEpsg
              THEN [raised |-> FALSE, exc |-> "", val |-> DefaultEpsg]
              ELSE [raised |-> TRUE, exc |-> ToEpsgExc(env), val |-> 0]
    ELSE [raised |-> FALSE, exc |-> "", val |-> env.epsg]

\* one call that returns
EpsgReturn ==
    /\ e_pc = "start"
    /\ ~_get_ept_epsg(e_url, e_env).raised
    /\ e_pc' = "returned"
    /\ e_result' = _get_ept_epsg(e_url, e_env).val
    /\ UNCHANGED <<e_url, e_env, e_err>>

\* one call that lets an exception escape
EpsgRaise ==
    /\ e_pc = "start"
    /\ _get_ept_epsg(e_url, e_env).raised
    /\ e_pc' = "raised"
    /\ e_err' = _get_ept_epsg(e_url, e_env).exc
    /\ UNCHANGED <<e_url, e_env, e_result>>

NoIntrospection == Introspection("ok", "json", "dict", "dict", "dict", "epsg", 3857)

EpsgInit ==
    /\ e_url \in {None, NaN, Str(UrlA), Str(UrlB)}
    /\ e_env \in Introspections
    /\ e_pc = "start"
    /\ e_result = 0
    /\ e_err = ""

EpsgIdle ==
    /\ e_url = None
    /\ e_env = NoIntrospection
    /\ e_pc = "off"
    /\ e_result = 0
    /\ e_err = ""

(***************************************************************************)
(* ProcessLidarCollections.execute                                         *)
(***************************************************************************)
\* the 'ept_gdf' cell of a row: no such column yet, the string "", or a
\* GeoDataFrame (rows of index and geometry)
NoColumn == [kind |-> "absent", rows |-> <<>>]
EmptyString == [kind |-> "str", rows |-> <<>>]
GdfCell(rows) == [kind |-> "gdf", rows |-> rows]

\* one row of the Collection table as make_post_request returns it
CollectionRow(fid, name, links) ==
    [fid |-> fid, name |-> name, Links |-> links,
     ept_usiaei |-> Unset, noaa_id |-> Unset, ept_noaa |-> Unset, ept |-> Unset,
     ept_crs |-> 0, ept_gdf |-> NoColumn]

EptLinkA == Entry(LinkKeys, "USGS", "EPT Link", UrlA)
NoaaLink == Entry(LinkKeys, "NOAA Digital Coast", "Data Access", NoaaLink12)

ExecLinks ==
    {LinksNone, LinksDict(<<EptLinkA>>), LinksDict(<<EptLinkA, NoaaLink>>), LinksDict(<<NoaaLink>>)}

\* Collection tables of 1..n rows; fid is the position of the row
RECURSIVE CollectionTables(_)
CollectionTables(n) ==
    IF n = 0 THEN {<<>>}
    ELSE LET shorter == CollectionTables(n - 1)
         IN  shorter \cup {Append(t, CollectionRow(n, name, l)) :
                              t \in {u \in shorter : Len(u) = n - 1},
                              name \in Names, l \in ExecLinks}

\* one row of the location table: its index label, name and geometry
LocationRow(index, name, src) ==
    [index |-> index, name |-> name, geometry |-> Geom("polygon", 1, 0, src, wgs)]

\* location tables as generate_geometries returns them (gdf_wgs); the parts of
\* an exploded multi-part Region share index label and name
LocationTables ==
    { <<LocationRow(0, "n1", "g1")>>,
      <<LocationRow(0, "n1", "g1"), LocationRow(1, "n2", "g2")>>,
      <<LocationRow(0, "n2", "g2"), LocationRow(1, "n1", "g1")>>,
      <<LocationRow(0, "n1", "g1a"), LocationRow(0, "n1", "g1b")>> }

\* one row of noaa_dav_gdf[['ID #', 'EPT']]
RefRow(id, ept) == [id |-> id, EPT |-> ept]
Id12 == Str(<<"1", "2">>)

RefTables ==
    { <<>>,
      <<RefRow(Id12, Str(UrlA))>>,
      <<RefRow(Id12, Str(UrlB))>>,
      <<RefRow(Id12, Str(UrlA)), RefRow(Id12, Str(UrlB))>>,
      <<RefRow(NaN, Str(UrlB))>> }

ParseEptOfRow(row) == _parse_ept_from_usiaei(row.Links)
ParseNoaaOfRow(row) == _parse_noaa_lidar_id(row.Links)

\* Series.apply stops at the first row on which the function raises
FirstOf(bad) == IF bad = {} THEN 0 ELSE CHOOSE i \in bad : \A j \in bad : i <= j
FirstRaisingEpt(rows) == FirstOf({i \in 1..Len(rows) : ParseEptOfRow(rows[i]).raised})
FirstRaisingNoaa(rows) == FirstOf({i \in 1..Len(rows) : ParseNoaaOfRow(rows[i]).raised})

\* Series.apply infers the dtype of the results it collected: results that are
\* all None or NaN, with at least one NaN, make a float64 column, in which a
\* None is stored as NaN; any other mix is an object column that keeps them
InferColumn(vals) ==
    IF /\ \A i \in 1..Len(vals) : IsNull(vals[i])
       /\ \E i \in 1..Len(vals) : vals[i] = NaN
    THEN [i \in 1..Len(vals) |-> NaN]
    ELSE vals

\* self.collections['ept_usiaei'] = self.collections['Links'].apply(...)
ExecParseEpt ==
    /\ x_pc = "start"
    /\ LET bad == FirstRaisingEpt(x_collections)
       IN  IF bad # 0
           THEN /\ x_pc' = "raised"
                /\ x_err' = ParseEptOfRow(x_collections[bad]).exc
                /\ UNCHANGED x_collections
           ELSE /\ x_pc' = "usiaei"
                /\ LET col == InferColumn([i \in 1..Len(x_collections) |->
                                              ParseEptOfRow(x_collections[i]).val])
                   IN  x_collections' = [i \in 1..Len(x_collections) |->
                           [x_collections[i] EXCEPT !.ept_usiaei = col[i]]]
                /\ UNCHANGED x_err
    /\ UNCHANGED <<x_locations, x_ref>>

\* self.collections['noaa_id'] = self.collections['Links'].apply(...)
ExecParseNoaa ==
    /\ x_pc = "usiaei"
    /\ LET bad == FirstRaisingNoaa(x_collections)
       IN  IF bad # 0
           THEN /\ x_pc' = "raised"
                /\ x_err' = ParseNoaaOfRow(x_collections[bad]).exc
                /\ UNCHANGED x_collections
           ELSE /\ x_pc' = "noaa"
                /\ LET col == InferColumn([i \in 1..Len(x_collections) |->
                                              ParseNoaaOfRow(x_collections[i]).val])
                   IN  x_collections' = [i \in 1..Len(x_collections) |->
                           [x_collections[i] EXCEPT !.noaa_id = col[i]]]
                /\ UNCHANGED x_err
    /\ UNCHANGED <<x_locations, x_ref>>

\* pandas matches join keys that are equal; null keys match null keys
KeyMatch(a, b) == (IsNull(a) /\ IsNull(b)) \/ (~IsNull(a) /\ ~IsNull(b) /\ a = b)

RECURSIVE Matching(_, _)
Matching(key, right) ==
    IF right = <<>> THEN <<>>
    ELSE (IF KeyMatch(key, Head(right).id) THEN <<Head(right)>> ELSE <<>>)
         \o Matching(key, Tail(right))

\* pd.merge(left, right, left_on="noaa_id", right_on="ID #", how='left'):
\* left order kept, one output row per matching right row, NaN when none
RECURSIVE LeftMerge(_, _)
LeftMerge(left, right) ==
    IF left = <<>> THEN <<>>
    ELSE LET row == Head(left)
             m == Matching(row.noaa_id, right)
         IN  (IF m = <<>> THEN <<[row EXCEPT !.ept_noaa = NaN]>>
              ELSE [k \in 1..Len(m) |-> [row EXCEPT !.ept_noaa = m[k].EPT]])
             \o LeftMerge(Tail(left), right)

ExecMerge ==
    /\ x_pc = "noaa"
    /\ x_pc' = "merged"
    /\ x_collections' = LeftMerge(x_collections, x_ref)
    /\ UNCHANGED <<x_locations, x_ref, x_err>>

\* url = list(set([x['ept_usiaei'], x['EPT']])) without the nulls;
\* the single element if there is exactly one, np.nan otherwise
_get_ept_urlMutant(usiaei, noaa) ==
    IF ~IsNull(usiaei) THEN usiaei ELSE IF ~IsNull(noaa) THEN noaa ELSE NaN
_get_ept_url(usiaei, noaa) ==
    LET url == {v \in {usiaei, noaa} : ~IsNull(v)}
    IN  IF Cardinality(url) = 1 THEN CHOOSE v \in url : TRUE ELSE NaN

\* self.collections['ept'] = self.collections.apply(self._get_ept_url, axis=1)
\* and the rename of 'EPT' to 'ept_noaa'
ExecEptUrl ==
    /\ x_pc = "merged"
    /\ x_pc' = "ept"
    /\ x_collections' = [i \in 1..Len(x_collections) |->
           [x_collections[i] EXCEPT
               !.ept = _get_ept_url(x_collections[i].ept_usiaei, x_collections[i].ept_noaa)]]
    /\ UNCHANGED <<x_locations, x_ref, x_err>>

\* what the introspection of each endpoint gives during this run
ExecIntrospections ==
    { Introspection("ok", "json", "dict", "dict", "dict", "epsg", 26918),
      Introspection("ok", "json", "dict", "dict", "dict", "epsg", 3857),
      Introspection("ok", "json", "dict", "dict", "dict", "garbage", 3857) }

EpsgOfRow(row, env) ==
    _get_ept_epsg(row.ept, IF row.ept.k = "str" THEN env[row.ept.s] ELSE NoIntrospection)

\* self.collections['ept_crs'] = self.collections['ept'].apply(self._get_ept_epsg)
ExecCrs(env) ==
    /\ x_pc = "ept"
    /\ LET bad == {i \in 1..Len(x_collections) : EpsgOfRow(x_collections[i], env).raised}
       IN  IF bad # {}
           THEN /\ x_pc' = "raised"
                /\ x_err' = EpsgOfRow(x_collections[CHOOSE i \in bad : \A j \in bad : i <= j], env).exc
                /\ UNCHANGED x_collections
           ELSE /\ x_pc' = "crs"
                /\ x_collections' = [i \in 1..Len(x_collections) |->
                       [x_collections[i] EXCEPT !.ept_crs = EpsgOfRow(x_collections[i], env).val]]
                /\ UNCHANGED x_err
    /\ UNCHANGED <<x_locations, x_ref>>

\* self.locations[self.locations.name == name][['geometry']]
LocationOf(locations, name) ==
    LET sel == SelectSeq(locations, LAMBDA r : r.name = name)
    IN  [k \in 1..Len(sel) |-> [index |-> sel[k].index, geometry |-> sel[k].geometry]]

\* ept_gdfs = [location.to_crs(crs) for crs in crss]
EptGdfsMutant(location, crss) ==
    [k \in 1..Len(crss) |-> GdfCell(FrameToCrs(location, crss[1]))]
EptGdfs(location, crss) ==
    [k \in 1..Len(crss) |-> GdfCell(FrameToCrs(location, crss[k]))]

\* one iteration of the loop over names: the rows under the mask get the
\* reprojected location, in subset order
AddGeometriesFor(name, collections, locations) ==
    LET mask == [i \in 1..Len(collections) |-> collections[i].name = name]
        pos == {i \in 1..Len(collections) : mask[i]}
        subset == SelectSeq(collections, LAMBDA r : r.name = name)
        crss == [k \in 1..Len(subset) |-> subset[k].ept_crs]
        ept_gdfs == EptGdfs(LocationOf(locations, name), crss)
        rank(i) == Cardinality({j \in pos : j <= i})
    IN  [i \in 1..Len(collections) |->
            IF mask[i] THEN [collections[i] EXCEPT !.ept_gdf = ept_gdfs[rank(i)]]
            ELSE collections[i]]

RECURSIVE AddGeometriesLoop(_, _, _)
AddGeometriesLoop(names, collections, locations) ==
    IF names = <<>> THEN collections
    ELSE AddGeometriesLoop(Tail(names),
                           AddGeometriesFor(Head(names), collections, locations), locations)

_add_ept_geometries_as_gdf(collections, locations) ==
    LET blank == [i \in 1..Len(collections) |-> [collections[i] EXCEPT !.ept_gdf = EmptyString]]
        names == [k \in 1..Len(locations) |-> locations[k].name]
    IN  AddGeometriesLoop(names, blank, locations)

\* self.collections = self._add_ept_geometries_as_gdf(); return
ExecAddGeometries ==
    /\ x_pc = "crs"
    /\ x_pc' = "done"
    /\ x_collections' = _add_ept_geometries_as_gdf(x_collections, x_locations)
    /\ UNCHANGED <<x_locations, x_ref, x_err>>

ExecInit ==
    /\ x_collections \in {t \in CollectionTables(MaxRows) : Len(t) >= 1}
    /\ x_locations \in LocationTables
    /\ x_ref \in RefTables
    /\ x_pc = "start"
    /\ x_err = ""

ExecIdle ==
    /\ x_collections = <<>>
    /\ x_locations = <<>>
    /\ x_ref = <<>>
    /\ x_pc = "off"
    /\ x_err = ""

(***************************************************************************)
(* fetch_lidar                                                             *)
(***************************************************************************)
\* extent (minx, miny, maxx, maxy) of the sample geometries
Extent(g) ==
    IF g.src = "g1" THEN <<0, 0, 5, 5>>
    ELSE IF g.src = "g2" THEN <<2, 3, 7, 9>>
    ELSE IF g.src = "g1a" THEN <<0, 0, 2, 2>>
    ELSE <<3, 1, 5, 5>>

MinOf(S) == CHOOSE v \in S : \A w \in S : v <= w
MaxOf(S) == CHOOSE v \in S : \A w \in S : v >= w

\* ept_gdf.total_bounds.tolist(): minx, miny, maxx, maxy over all rows
TotalBounds(rows) ==
    LET e == [k \in 1..Len(rows) |-> Extent(rows[k].geometry)]
        ks == 1..Len(rows)
    IN  <<MinOf({e[k][1] : k \in ks}), MinOf({e[k][2] : k \in ks}),
          MaxOf({e[k][3] : k \in ks}), MaxOf({e[k][4] : k \in ks})>>

NoBounds == [x |-> <<0, 0>>, y |-> <<0, 0>>, crs |-> 0]
NoPolygon == [src |-> "", crs |-> 0]

\* f"([{minx}, {maxx}], [{miny}, {maxy}])"
BoundsString(rows) ==
    LET b == TotalBounds(rows)
    IN  [x |-> <<b[1], b[3]>>, y |-> <<b[2], b[4]>>, crs |-> rows[1].geometry.crs]

\* the WKT of one geometry
ToWkt(g) == [src |-> g.src, crs |-> g.crs]

\* a stage of the pipeline; keys holds 'bounds' / 'polygon' when set
Stage(type, filename, tag, keys, bounds, polygon) ==
    [type |-> type, filename |-> filename, tag |-> tag, keys |-> keys,
     bounds |-> bounds, polygon |-> polygon]

ReadStage(ept_url) == Stage("readers.ept", ept_url, "readdata", {}, NoBounds, NoPolygon)
WriteStage(out_las) == Stage("writers.las", out_las, "", {}, NoBounds, NoPolygon)

out_las == Str(<<"demo_data/demo_lidar.las">>)

\* if not ept_url: the list gdf.ept.to_list() is empty
NoEptUrl(gdf) == Len(gdf) = 0

\* ept_gdf.geometry.to_wkt()[0]: the label 0 of the index
WktLabelZero(rows) == {k \in 1..Len(rows) : rows[k].index = 0}

\* lines 396-402: the exception raised there, "" for none
RegionExc(gdf, method) ==
    IF Len(gdf) # 1 THEN "ValueError"
    ELSE IF method \in {"bounds", "polygon"} /\ gdf[1].ept_gdf.kind # "gdf" THEN "AttributeError"
    ELSE IF method = "polygon" /\ WktLabelZero(gdf[1].ept_gdf.rows) = {} THEN "KeyError"
    ELSE ""

\* json.dumps(pipeline) cannot serialise a Series (label 0 held by several rows)
DumpsExc(gdf, method) ==
    IF method = "polygon" /\ Cardinality(WktLabelZero(gdf[1].ept_gdf.rows)) > 1
    THEN "TypeError" ELSE ""

\* the read stage with the region of the requested geometry_method
BoundedReadStage(gdf, method) ==
    LET rows == gdf[1].ept_gdf.rows
        stage == ReadStage(gdf[1].ept)
    IN  IF method = "bounds"
        THEN [stage EXCEPT !.keys = {"bounds"}, !.bounds = BoundsString(rows)]
        ELSE IF method = "polygon"
        THEN [stage EXCEPT !.keys = {"polygon"},
                           !.polygon = ToWkt(rows[MinOf(WktLabelZero(rows))].geometry)]
        ELSE stage

\* lines 382-415: up to pdal.Pipeline(json.dumps(pipeline))
FetchBuild ==
    /\ f_pc = "start"
    /\ IF NoEptUrl(f_gdf)
       THEN /\ f_pc' = "raised"
            /\ f_err' = "Exception"
            /\ UNCHANGED f_pipeline
       ELSE IF RegionExc(f_gdf, f_method) # ""
       THEN /\ f_pc' = "raised"
            /\ f_err' = RegionExc(f_gdf, f_method)
            /\ f_pipeline' = <<ReadStage(f_gdf[1].ept)>>
       ELSE LET read == BoundedReadStage(f_gdf, f_method)
                pipeline == IF f_write THEN <<read, WriteStage(out_las)>> ELSE <<read>>
            IN  /\ f_pipeline' = pipeline
                /\ IF DumpsExc(f_gdf, f_method) # ""
                   THEN f_pc' = "raised" /\ f_err' = DumpsExc(f_gdf, f_method)
                   ELSE f_pc' = "built" /\ UNCHANGED f_err
    /\ UNCHANGED <<f_gdf, f_method, f_write>>

\* pipeline.execute(): pdal reads the endpoint; it cannot read a filename
\* that is not a string, and a remote read may fail
FetchExecute(ok) ==
    /\ f_pc = "built"
    /\ IF ok /\ f_pipeline[1].filename.k = "str"
       THEN f_pc' = "returned" /\ UNCHANGED f_err
       ELSE f_pc' = "raised" /\ f_err' = "RuntimeError"
    /\ UNCHANGED <<f_gdf, f_method, f_write, f_pipeline>>

FetchRow(ept, ept_gdf) == [ept |-> ept, ept_gdf |-> ept_gdf]

\* ept_gdf cells as _add_ept_geometries_as_gdf leaves them
FetchCells ==
    {EmptyString}
    \cup {GdfCell(FrameToCrs(LocationOf(t, name), crs)) :
             t \in LocationTables, name \in {"n1"}, crs \in {DefaultEpsg} \cup EpsgCodes}

FetchRows == {FetchRow(ept, cell) : ept \in {None, NaN, Str(UrlA), Str(UrlB)}, cell \in FetchCells}

FetchTables ==
    {<<>>} \cup {<<r>> : r \in FetchRows}
    \cup {<<FetchRow(Str(UrlA), c), FetchRow(NaN, c)>> : c \in FetchCells}

FetchInit ==
    /\ f_gdf \in FetchTables
    /\ f_method \in {"bounds", "polygon", "bbox"}
    /\ f_write \in BOOLEAN
    /\ f_pc = "start"
    /\ f_pipeline = <<>>
    /\ f_err = ""

FetchIdle ==
    /\ f_gdf = <<>>
    /\ f_method = ""
    /\ f_write = FALSE
    /\ f_pc = "off"
    /\ f_pipeline = <<>>
    /\ f_err = ""

(***************************************************************************)
(* Specifications: one per component.                                      *)
(***************************************************************************)
InitPost == PostInit /\ GeomIdle /\ LinksIdle /\ EpsgIdle /\ ExecIdle /\ FetchIdle
NextPost ==
    \/ PostStart /\ UNCHANGED <<geomVars, linkVars, epsgVars, execVars, fetchVars>>
    \/ (\E n \in 0..MaxFeatures : PostOk(n)) /\ UNCHANGED <<geomVars, linkVars, epsgVars, execVars, fetchVars>>
    \/ (\E code \in Statuses : PostFatal(code)) /\ UNCHANGED <<geomVars, linkVars, epsgVars, execVars, fetchVars>>
    \/ (\E code \in Statuses : PostOther(code)) /\ UNCHANGED <<geomVars, linkVars, epsgVars, execVars, fetchVars>>
    \/ PostConcat /\ UNCHANGED <<geomVars, linkVars, epsgVars, execVars, fetchVars>>
SpecPost == InitPost /\ [][NextPost]_vars

InitGeom == GeomInit /\ PostIdle /\ LinksIdle /\ EpsgIdle /\ ExecIdle /\ FetchIdle
NextGeom ==
    \/ GeomCoords /\ UNCHANGED <<postVars, linkVars, epsgVars, execVars, fetchVars>>
    \/ GeomFile /\ UNCHANGED <<postVars, linkVars, epsgVars, execVars, fetchVars>>
    \/ GeomBbox /\ UNCHANGED <<postVars, linkVars, epsgVars, execVars, fetchVars>>
    \/ GeomNoBranch /\ UNCHANGED <<postVars, linkVars, epsgVars, execVars, fetchVars>>
    \/ GeomFinish /\ UNCHANGED <<postVars, linkVars, epsgVars, execVars, fetchVars>>
SpecGeom == InitGeom /\ [][NextGeom]_vars

InitLinks == LinksInit /\ PostIdle /\ GeomIdle /\ EpsgIdle /\ ExecIdle /\ FetchIdle
NextLinks ==
    \/ LinksParseEpt /\ UNCHANGED <<postVars, geomVars, epsgVars, execVars, fetchVars>>
    \/ LinksParseNoaa /\ UNCHANGED <<postVars, geomVars, epsgVars, execVars, fetchVars>>
SpecLinks == InitLinks /\ [][NextLinks]_vars

InitEpsg == EpsgInit /\ PostIdle /\ GeomIdle /\ LinksIdle /\ ExecIdle /\ FetchIdle
NextEpsg ==
    \/ EpsgReturn /\ UNCHANGED <<postVars, geomVars, linkVars, execVars, fetchVars>>
    \/ EpsgRaise /\ UNCHANGED <<postVars, geomVars, linkVars, execVars, fetchVars>>
SpecEpsg == InitEpsg /\ [][NextEpsg]_vars

InitExec == ExecInit /\ PostIdle /\ GeomIdle /\ LinksIdle /\ EpsgIdle /\ FetchIdle
NextExec ==
    \/ ExecParseEpt /\ UNCHANGED <<postVars, geomVars, linkVars, epsgVars, fetchVars>>
    \/ ExecParseNoaa /\ UNCHANGED <<postVars, geomVars, linkVars, epsgVars, fetchVars>>
    \/ ExecMerge /\ UNCHANGED <<postVars, geomVars, linkVars, epsgVars, fetchVars>>
    \/ ExecEptUrl /\ UNCHANGED <<postVars, geomVars, linkVars, epsgVars, fetchVars>>
    \/ (\E env \in [{UrlA, UrlB} -> ExecIntrospections] : ExecCrs(env))
           /\ UNCHANGED <<postVars, geomVars, linkVars, epsgVars, fetchVars>>
    \/ ExecAddGeometries /\ UNCHANGED <<postVars, geomVars, linkVars, epsgVars, fetchVars>>
SpecExec == InitExec /\ [][NextExec]_vars

InitFetch == FetchInit /\ PostIdle /\ GeomIdle /\ LinksIdle /\ EpsgIdle /\ ExecIdle
NextFetch ==
    \/ FetchBuild /\ UNCHANGED <<postVars, geomVars, linkVars, epsgVars, execVars>>
    \/ (\E ok \in BOOLEAN : FetchExecute(ok))
           /\ UNCHANGED <<postVars, geomVars, linkVars, epsgVars, execVars>>
SpecFetch == InitFetch /\ [][NextFetch]_vars

(***************************************************************************)
(* Claims about make_post_request (checked under SpecPost).                *)
(***************************************************************************)
\* C1: the first response with status 400, 401 or 500 raises at once: the call
\* ends raised with an Exception, no Collection table is returned, and from a
\* raised call no further POST is issued and nothing more is aggregated.
C1_FatalStatusAborts ==
    [][ /\ (p_posts' = p_posts + 1 /\ p_status' \in {400, 401, 500})
           => (p_pc' = "raised" /\ p_err'.type = "Exception" /\ p_err'.code = p_status'
               /\ p_result' = NoTable /\ p_gdfs' = p_gdfs)
        /\ (p_pc = "raised")
           => (p_posts' = p_posts /\ p_gdfs' = p_gdfs /\ p_result' = NoTable) ]_vars

\* a 400 after an earlier non-empty response, with pairs still to query
C1_Witness ==
    /\ p_pc = "raised"
    /\ p_status = 400
    /\ p_gdfs # <<>>
    /\ p_posts < Len(urls) * Len(p_locations)
    /\ p_result = NoTable

\* C8: when every query completed without 400/401/500 and no response was
\* non-empty, the call ends raised (no empty table is returned) with an error
\* whose type differs from the type raised for 400/401/500.
C8_EmptyResultIsDistinctFailure ==
    (p_pc \in {"returned", "raised"} /\ ~(p_status \in {400, 401, 500}) /\ p_gdfs = <<>>)
        => /\ p_pc = "raised"
           /\ p_result = NoTable
           /\ \A code \in {400, 401, 500} : FatalError(code).type # p_err.type

\* all pairs queried, every response 200-empty or ignored, then the concat fails
C8_Witness ==
    /\ p_pc = "raised"
    /\ p_err.type = "ValueError"
    /\ p_posts = Len(urls) * Len(p_locations)
    /\ p_posts > 0
    /\ p_status = 200

\* C9: every non-2xx status received by make_post_request aborts the call.
C9_EveryNon2xxIsFatal ==
    [][ (p_posts' = p_posts + 1 /\ (p_status' < 200 \/ p_status' > 299))
           => p_pc' = "raised" ]_vars

(***************************************************************************)
(* Claims about generate_geometries (checked under SpecGeom).              *)
(***************************************************************************)
CoordsWithoutBuffer(i) ==
    /\ g_locations[i].data_type = "coords"
    /\ "buffer" \notin g_locations[i].keys

\* C6: a 'coords' Region without a 'buffer' key is accepted (the call does not
\* fail on it) and is buffered with the default radius of 50 meters.
C6_MissingBufferDefaultsTo50 ==
    \A i \in 1..Len(g_locations) :
        CoordsWithoutBuffer(i) =>
            /\ ~(g_pc = "raised" /\ g_i = i)
            /\ (g_i > i /\ \A j \in 1..(i - 1) : g_locations[j].data_type = "coords")
                   => g_gdfs[i][1].geometry.radius = DefaultBuffer

\* C7: the call fails whenever some Region has a data_type outside
\* {coords, file, bbox}; on a successful return every Region has a row carrying
\* its name in both output tables.
C7_UnknownDataTypeFails ==
    g_pc = "returned" =>
        \A i \in 1..Len(g_locations) :
            /\ g_locations[i].data_type \in {"coords", "file", "bbox"}
            /\ \E k \in 1..Len(g_wgs) : g_wgs[k].name = g_locations[i].name
            /\ \E k \in 1..Len(g_mercator) : g_mercator[k].name = g_locations[i].name

(***************************************************************************)
(* Claims about Links parsing (checked under SpecLinks).                   *)
(***************************************************************************)
WellFormedEntry(l) == l.keys = LinkKeys
WellFormed(x) ==
    /\ x.kind = "text" /\ x.json = "dict" /\ x.hasLinks
    /\ \A i \in 1..Len(x.links) : WellFormedEntry(x.links[i])

\* positions of the links the two parsers look for
EptPositions(x) == {i \in 1..Len(x.links) : x.links[i].linktype = "EPT Link"}
NoaaPositions(x) ==
    {i \in 1..Len(x.links) : /\ x.links[i].label = "NOAA Digital Coast"
                              /\ x.links[i].linktype = "Data Access"}
Min(S) == CHOOSE i \in S : \A j \in S : i <= j

\* C4: Links parsing never raises; absent or malformed Links give null for both
\* ept_usiaei and noaa_id; well-formed Links give the first 'EPT Link' target
\* and the digits after 'ID=' of the first NOAA Digital Coast Data Access link,
\* or null where there is none.
C4_LinksParsingNeverRaises ==
    /\ k_pc # "raised"
    /\ (k_pc = "done" /\ ~WellFormed(k_links))
           => (IsNull(k_ept_usiaei) /\ IsNull(k_noaa_id))
    /\ (k_pc = "done" /\ WellFormed(k_links))
           => /\ k_ept_usiaei = IF EptPositions(k_links) = {} THEN NaN
                                ELSE Str(k_links.links[Min(EptPositions(k_links))].link)
              /\ IF NoaaPositions(k_links) = {} THEN IsNull(k_noaa_id)
                 ELSE LET id == SearchId(k_links.links[Min(NoaaPositions(k_links))].link)
                      IN  IF id = <<>> THEN IsNull(k_noaa_id) ELSE k_noaa_id = Str(id)

(***************************************************************************)
(* Claims about _get_ept_epsg (checked under SpecEpsg).                    *)
(***************************************************************************)
\* the whole introspection chain succeeds
IntrospectionSucceeds(env) ==
    /\ env.tool = "ok" /\ env.output = "json" /\ env.top = "dict"
    /\ env.summary = "dict" /\ env.srs = "dict" /\ env.wkt = "epsg"

\* C3: _get_ept_epsg never raises: it returns the mapped EPSG code for a string
\* endpoint whose introspection succeeds and exactly 4326 for every failure of
\* the chain and for every non-string endpoint.
C3_EpsgTotalWithDefault ==
    /\ e_pc # "raised"
    /\ e_pc = "returned" =>
           e_result = IF e_url.k = "str" /\ IntrospectionSucceeds(e_env)
                      THEN e_env.epsg ELSE DefaultEpsg

(***************************************************************************)
(* Claims about ProcessLidarCollections.execute (checked under SpecExec).  *)
(***************************************************************************)
\* C2: the resolved ept is the single distinct non-null value among
\* ept_usiaei and ept_noaa when exactly one exists (A/null, null/B, A/A) and
\* null otherwise (A/B with A # B, null/null); neither source is preferred.
C2_EndpointReconciliation ==
    x_pc \in {"ept", "crs", "done"} =>
        \A i \in 1..Len(x_collections) :
            LET u == x_collections[i].ept_usiaei
                n == x_collections[i].ept_noaa
                ept == x_collections[i].ept
            IN  /\ (~IsNull(u) /\ IsNull(n)) => ept = u
                /\ (IsNull(u) /\ ~IsNull(n)) => ept = n
                /\ (~IsNull(u) /\ ~IsNull(n) /\ u = n) => ept = u
                /\ (~IsNull(u) /\ ~IsNull(n) /\ u # n) => IsNull(ept)
                /\ (IsNull(u) /\ IsNull(n)) => IsNull(ept)

\* one row whose two sources disagree (unresolved) beside a row resolved from
\* the reference table alone
C2_Witness ==
    /\ x_pc = "ept"
    /\ \E i, j \in 1..Len(x_collections) :
          /\ x_collections[i].ept_usiaei = Str(UrlA)
          /\ x_collections[i].ept_noaa = Str(UrlB)
          /\ IsNull(x_collections[i].ept)
          /\ IsNull(x_collections[j].ept_usiaei)
          /\ x_collections[j].ept_noaa = Str(UrlB)
          /\ x_collections[j].ept = Str(UrlB)

\* C10: after execute, every Collection row whose name is the name of some
\* location holds in ept_gdf exactly the location rows of that name, each
\* reprojected into that row's own ept_crs.
C10_EptGdfIsOwnLocationInOwnCrs ==
    x_pc = "done" =>
        \A i \in 1..Len(x_collections) :
            LET row == x_collections[i]
                locs == SelectSeq(x_locations, LAMBDA r : r.name = row.name)
            IN  locs # <<>> =>
                    /\ row.ept_gdf.kind = "gdf"
                    /\ Len(row.ept_gdf.rows) = Len(locs)
                    /\ \A k \in 1..Len(locs) :
                          /\ row.ept_gdf.rows[k].index = locs[k].index
                          /\ row.ept_gdf.rows[k].geometry.src = locs[k].geometry.src
                          /\ row.ept_gdf.rows[k].geometry.crs = row.ept_crs

\* two rows of one name with different CRS values, the name shared by two
\* location rows, after execute has finished
C10_Witness ==
    /\ x_pc = "done"
    /\ \E i, j \in 1..Len(x_collections) :
          /\ x_collections[i].name = x_collections[j].name
          /\ x_collections[i].ept_crs # x_collections[j].ept_crs
          /\ Len(x_collections[i].ept_gdf.rows) = 2
          /\ x_collections[j].ept_gdf.rows[1].geometry.crs = x_collections[j].ept_crs

\* C11: execute only adds derived columns: every step keeps exactly one row
\* per input Collection row, in the same order (the join on noaa_id neither
\* multiplies nor drops rows), and after the join a row whose noaa_id is null
\* has a null ept_noaa.
C11_ExecuteKeepsRows ==
    [][ /\ Len(x_collections') = Len(x_collections)
        /\ \A i \in 1..Len(x_collections) : x_collections'[i].fid = x_collections[i].fid
        /\ x_pc' = "merged" =>
               \A i \in 1..Len(x_collections') :
                   IsNull(x_collections'[i].noaa_id) => IsNull(x_collections'[i].ept_noaa) ]_vars

(***************************************************************************)
(* Claims about fetch_lidar (checked under SpecFetch).                     *)
(***************************************************************************)
\* C5: whenever the table has no rows or the row's ept is null, fetch_lidar
\* fails before a pipeline with a read stage is built or executed; a pipeline
\* is built and executed only with a non-null ept as its filename.
C5_NullEptFailsBeforeRead ==
    /\ (Len(f_gdf) = 0 \/ IsNull(f_gdf[1].ept)) => f_pc \in {"start", "raised"}
    /\ f_pc \in {"built", "returned"} => ~IsNull(f_pipeline[1].filename)

\* C12: every extraction request that is built and executed is bounded: for
\* every geometry_method the read stage is first and carries exactly one of
\* 'bounds' (the region's minx/maxx, miny/maxy extent) and 'polygon' (the
\* region's WKT), and a write stage follows it if and only if write is true.
C12_ExtractionIsBounded ==
    f_pc = "returned" =>
        LET read == f_pipeline[1]
            rows == f_gdf[1].ept_gdf.rows
        IN  /\ read.type = "readers.ept"
            /\ Cardinality(read.keys \cap {"bounds", "polygon"}) = 1
            /\ "bounds" \in read.keys =>
                   /\ read.bounds.x = <<TotalBounds(rows)[1], TotalBounds(rows)[3]>>
                   /\ read.bounds.y = <<TotalBounds(rows)[2], TotalBounds(rows)[4]>>
            /\ "polygon" \in read.keys =>
                   \E k \in 1..Len(rows) : read.polygon.src = rows[k].geometry.src
            /\ Len(f_pipeline) = (IF f_write THEN 2 ELSE 1)
            /\ f_write => f_pipeline[2].type = "writers.las"

====
